---- MODULE Spec2Model ----
(***************************************************************************)
(* A model of align_corpus (align.py): the resumable run controller that   *)
(* reads talks from an input file, skips those whose TALK-ID already       *)
(* occurs in the output file, aligns the others and appends one record per *)
(* aligned sentence pair to the output file.                               *)
(*                                                                         *)
(* An output file is a sequence of records.  A run of align_corpus on an   *)
(* output file is a small sequential process whose position is pc:         *)
(*   "idle"     no run was started on this output file yet                 *)
(*   "loop"     at the head of the for loop (line 51), about to look at    *)
(*              input line idx                                             *)
(*   "write"    inside the `with open(output_file, "a")` block (80-87)     *)
(*   "done"     align_corpus returned                                      *)
(*   "error"    align_corpus raised an exception                           *)
(*   "crashed"  the process was killed                                     *)
(***************************************************************************)
EXTENDS Integers, Sequences, FiniteSets, TLC

\* ---------------------------------------------------------------- bounds
MaxUnits == 3      \* longest input file, in lines
MaxPairs == 2      \* most sentence pairs the aligner returns for one talk
MaxRuns  == 2      \* runs of align_corpus on one output file

Stores == {1, 2}   \* the output files (output_file paths)

\* ---------------------------------------------------------------- state
VARIABLES
    input,   \* the input file: a sequence of lines
    out,     \* out[s]: the content of output file s, a sequence of records
    run,     \* run[s]: the local state of the current run on output file s
    hist,    \* hist[s]: what the earlier runs on output file s did (history)
    langs    \* <<src_lang, tgt_lang>>: the configured language codes

vars == <<input, out, run, hist, langs>>

\* ------------------------------------------------------- the input file
\* A line of the input file.  kind says what json.loads and the field
\* lookups of lines 55-63 make of it:
\*   "ok"      a talk with both languages in TRANSCRIPT
\*   "nolang"  a talk whose TRANSCRIPT lacks src_lang or tgt_lang
\*   "bad"     not JSON, or no TALK-ID / TALK-NAME (it has no id: 0)
\* pairs is the number of sentence pairs the aligner returns for the talk.
Line(kind, id, pairs) == [kind |-> kind, id |-> id, pairs |-> pairs]

Lines ==
    {Line("ok", i, p) : i \in 1..MaxUnits, p \in 0..MaxPairs}
    \cup {Line("nolang", i, 0) : i \in 1..MaxUnits}
    \cup {Line("bad", 0, 0)}

Max(S) == CHOOSE x \in S : \A y \in S : y <= x

\* Ids are named in the order of their first appearance: renaming the ids
\* of an input file changes no behaviour, so one file of each shape is
\* enough.  Two lines may carry the same id.
Canonical(inp) ==
    \A i \in 1..Len(inp) :
        inp[i].id <= 1 + Max({0} \cup {inp[j].id : j \in 1..(i - 1)})

Inputs == {inp \in UNION {[1..n -> Lines] : n \in 0..MaxUnits} : Canonical(inp)}

\* The ids of the input file are unique.
UniqueIds ==
    \A i, j \in 1..Len(input) :
        (input[i].kind # "bad" /\ input[i].id = input[j].id) => i = j

\* talk['TALK-NAME'] of the line at 0-based position idx: the model names a
\* talk after its line.
TalkName(idx) == idx + 1

\* ------------------------------------------------------ pure operators
\* The ledger not loaded: the run starts as if the output file were empty.
LoadLedgerEmpty(store) == {}

\* Lines 44-45: the set of TALK-IDs over all records of the output file.
LoadLedger(store) == {store[i].TALK_ID : i \in 1..Len(store)}

\* Line 40: wc -l, one line per record.
TotalTalks(store) == Len(store)

\* Line 41: the default of no_talks.
NoTalks(given, k, store) == IF given THEN k ELSE TotalTalks(store)

\* Lines 10-11 and 117-118: the language codes a run may be given.
Codes == {"en", "es", "EN"}

\* Lines 84-85: str.upper() on the language codes.
Upper(code) ==
    CASE code = "en" -> "EN"
      [] code = "EN" -> "EN"
      [] code = "es" -> "ES"

\* Lines 62-63 and 66-77: the j-th aligned segment of the document a talk
\* holds in one language.
Sentence(lang, talk_id, j) == <<lang, talk_id, j>>

\* Lines 62-77 and 81: the (src, tgt) pairs of texts the aligner returns for
\* a talk, in order.
GetSentences(talk, src_lang, tgt_lang) ==
    [j \in 1..talk.pairs |-> <<Sentence(src_lang, talk.id, j),
                               Sentence(tgt_lang, talk.id, j)>>]

\* Lines 82-87: the record written for one sentence pair, a dict in which a
\* key given twice keeps the value given last.  TALK_ID and TALK_NAME stand
\* for the keys "TALK-ID" and "TALK-NAME".
OutRecord(talk_id, talk_name, src_lang, tgt_lang, pair) ==
    (Upper(tgt_lang) :> pair[2]) @@ (Upper(src_lang) :> pair[1])
        @@ [TALK_ID |-> talk_id, TALK_NAME |-> talk_name]

\* The offset test made one line short: the line just before the offset is
\* read.
BelowOffsetShort(idx, offset) == idx + 1 < offset

\* The offset test made one line long: the line at the offset is skipped.
BelowOffsetLong(idx, offset) == idx <= offset

\* Line 52: the offset test.
BelowOffset(idx, offset) == idx < offset

\* The stopping test without initial_done: the ids that were in the ledger
\* before the run count toward the quota.
QuotaReachedTotal(aligned_talks, initial_done, no_talks) ==
    Cardinality(aligned_talks) >= no_talks

\* Line 91: the stopping test.
QuotaReached(aligned_talks, initial_done, no_talks) ==
    Cardinality(aligned_talks) >= initial_done + no_talks

\* ------------------------------------------------------------- Init
\* The local state of a run.  no_talks, offset, idx, aligned_talks and
\* initial_done are the variables of align_corpus; pending is what is left
\* of aligner.get_sentences() in the loop of line 81.  The other fields are
\* history: n counts the runs on the output file, given and arg are the
\* no_talks argument (given = FALSE is None), out0 is the output file as the
\* run found it, aligned lists the positions passed to the aligner and
\* skipped those skipped at line 60, in order, same says that the run has
\* the arguments of the run before it, and last is how that run ended: its
\* pc and, when it stopped with records of a talk still to write, the
\* position of that talk and the number of records left.
NoLast == [pc |-> "idle", idx |-> 0, left |-> 0]

IdleRun ==
    [pc |-> "idle", n |-> 0, given |-> TRUE, arg |-> 0, offset |-> 0,
     no_talks |-> 0, idx |-> 0, aligned_talks |-> {}, initial_done |-> 0,
     pending |-> <<>>, out0 |-> <<>>, aligned |-> <<>>, skipped |-> <<>>,
     same |-> FALSE, last |-> NoLast]

\* What is remembered of the runs that ended: the ids they passed to the
\* aligner, the ids they skipped at line 60, whether none of them crashed or
\* raised (clean), and whether none of them was killed or failed in a write
\* (whole).
NoHist == [called |-> {}, skipped |-> {}, clean |-> TRUE, whole |-> TRUE]

Init ==
    /\ input \in Inputs
    /\ out = [s \in Stores |-> <<>>]
    /\ run = [s \in Stores |-> IdleRun]
    /\ hist = [s \in Stores |-> NoHist]
    /\ langs = <<"en", "es">>

Ended == {"idle", "done", "error", "crashed"}
Running == {"loop", "write"}

Quotas == 0..MaxUnits
Offsets == 0..(MaxUnits - 1)

\* The line of the input file the run on s is looking at.
Talk(s) == input[run[s].idx + 1]

\* The run on s was killed, or raised while it wrote the records of a talk
\* (the only exception align_corpus raises at a well-formed talk with both
\* languages).
CutShort(s) ==
    \/ run[s].pc = "crashed"
    \/ run[s].pc = "error" /\ Talk(s).kind = "ok"

\* The ids of the lines at the positions of a sequence of positions.
IdsAt(ps) == {input[ps[i] + 1].id : i \in 1..Len(ps)}

\* ------------------------------------------------------------ actions
\* Lines 36-47: a call of align_corpus on output file s.  given = FALSE is
\* no_talks=None.
StartRun(s, given, k, o) ==
    /\ run[s].pc \in Ended
    /\ run[s].n < MaxRuns
    /\ LET ledger == LoadLedger(out[s]) IN
       run' = [run EXCEPT ![s] =
           [pc |-> "loop", n |-> run[s].n + 1, given |-> given,
            arg |-> IF given THEN k ELSE 0, offset |-> o,
            no_talks |-> NoTalks(given, k, out[s]), idx |-> 0,
            aligned_talks |-> ledger, initial_done |-> Cardinality(ledger),
            pending |-> <<>>, out0 |-> out[s], aligned |-> <<>>,
            skipped |-> <<>>,
            same |-> /\ run[s].pc # "idle"
                     /\ run[s].given = given
                     /\ run[s].arg = (IF given THEN k ELSE 0)
                     /\ run[s].offset = o,
            last |-> [pc |-> run[s].pc,
                      idx |-> IF run[s].pending # <<>> THEN run[s].idx ELSE 0,
                      left |-> Len(run[s].pending)]]]
    /\ hist' = [hist EXCEPT ![s] =
           [called |-> @.called \cup IdsAt(run[s].aligned),
            skipped |-> @.skipped \cup IdsAt(run[s].skipped),
            clean |-> @.clean /\ run[s].pc \in {"idle", "done"},
            whole |-> @.whole /\ ~CutShort(s)]]
    /\ UNCHANGED <<input, out, langs>>

\* Line 51: the input file has no line idx; the loop and the run end.
Exhausted(s) ==
    /\ run[s].pc = "loop"
    /\ run[s].idx >= Len(input)
    /\ run' = [run EXCEPT ![s].pc = "done"]
    /\ UNCHANGED <<input, out, hist, langs>>

\* Lines 52-53: a line before the offset is skipped unread.
SkipOffset(s) ==
    /\ run[s].pc = "loop"
    /\ run[s].idx < Len(input)
    /\ BelowOffset(run[s].idx, run[s].offset)
    /\ run' = [run EXCEPT ![s].idx = @ + 1]
    /\ UNCHANGED <<input, out, hist, langs>>

\* Lines 55-57: json.loads or a field lookup raises.
Malformed(s) ==
    /\ run[s].pc = "loop"
    /\ run[s].idx < Len(input)
    /\ ~BelowOffset(run[s].idx, run[s].offset)
    /\ Talk(s).kind = "bad"
    /\ run' = [run EXCEPT ![s].pc = "error"]
    /\ UNCHANGED <<input, out, hist, langs>>

\* The continue of line 60 written as break: the run ends at the first talk
\* whose id is in aligned_talks.
SkipDoneBreak(s) ==
    /\ run[s].pc = "loop"
    /\ run[s].idx < Len(input)
    /\ ~BelowOffset(run[s].idx, run[s].offset)
    /\ Talk(s).kind # "bad"
    /\ Talk(s).id \in run[s].aligned_talks
    /\ run' = [run EXCEPT ![s].pc = "done",
                          ![s].skipped = Append(@, run[s].idx)]
    /\ UNCHANGED <<input, out, hist, langs>>

\* Lines 59-60: a talk whose id is in aligned_talks is skipped.
SkipDone(s) ==
    /\ run[s].pc = "loop"
    /\ run[s].idx < Len(input)
    /\ ~BelowOffset(run[s].idx, run[s].offset)
    /\ Talk(s).kind # "bad"
    /\ Talk(s).id \in run[s].aligned_talks
    /\ run' = [run EXCEPT ![s].idx = @ + 1,
                          ![s].skipped = Append(@, run[s].idx)]
    /\ UNCHANGED <<input, out, hist, langs>>

\* The KeyError of lines 62-63 swallowed: the talk is marked as aligned and
\* the loop goes on.
MissingLanguageSwallowed(s) ==
    /\ run[s].pc = "loop"
    /\ run[s].idx < Len(input)
    /\ ~BelowOffset(run[s].idx, run[s].offset)
    /\ Talk(s).kind = "nolang"
    /\ Talk(s).id \notin run[s].aligned_talks
    /\ run' = [run EXCEPT ![s].idx = @ + 1,
                          ![s].aligned_talks = @ \cup {Talk(s).id}]
    /\ UNCHANGED <<input, out, hist, langs>>

\* Lines 62-63: talk['TRANSCRIPT'][src_lang] or [tgt_lang] raises KeyError.
MissingLanguage(s) ==
    /\ run[s].pc = "loop"
    /\ run[s].idx < Len(input)
    /\ ~BelowOffset(run[s].idx, run[s].offset)
    /\ Talk(s).kind = "nolang"
    /\ Talk(s).id \notin run[s].aligned_talks
    /\ run' = [run EXCEPT ![s].pc = "error"]
    /\ UNCHANGED <<input, out, hist, langs>>

\* Lines 66-80: the aligner runs on the talk and the output file is opened
\* for appending.
Align(s) ==
    /\ run[s].pc = "loop"
    /\ run[s].idx < Len(input)
    /\ ~BelowOffset(run[s].idx, run[s].offset)
    /\ Talk(s).kind = "ok"
    /\ Talk(s).id \notin run[s].aligned_talks
    /\ run' = [run EXCEPT ![s].pc = "write",
                          ![s].pending =
                              GetSentences(Talk(s), langs[1], langs[2]),
                          ![s].aligned = Append(@, run[s].idx)]
    /\ UNCHANGED <<input, out, hist, langs>>

\* The output file opened with "w" instead of "a": the first record of a
\* talk replaces what the file held.
WriteRecordTruncating(s) ==
    /\ run[s].pc = "write"
    /\ run[s].pending # <<>>
    /\ LET rec == OutRecord(Talk(s).id, TalkName(run[s].idx),
                            langs[1], langs[2],
                            Head(run[s].pending))
       IN  out' = [out EXCEPT ![s] =
               IF Len(run[s].pending) = Talk(s).pairs
               THEN <<rec>> ELSE Append(@, rec)]
    /\ run' = [run EXCEPT ![s].pending = Tail(@)]
    /\ UNCHANGED <<input, hist, langs>>

\* Lines 81-87: one record is appended to the output file.
WriteRecord(s) ==
    /\ run[s].pc = "write"
    /\ run[s].pending # <<>>
    /\ out' = [out EXCEPT ![s] =
           Append(@, OutRecord(Talk(s).id, TalkName(run[s].idx),
                            langs[1], langs[2],
                               Head(run[s].pending)))]
    /\ run' = [run EXCEPT ![s].pending = Tail(@)]
    /\ UNCHANGED <<input, hist, langs>>

\* The loop goes on before the records of the talk are all written: what is
\* left of them is dropped.
CommitEarly(s) ==
    /\ run[s].pc = "write"
    /\ LET done == run[s].aligned_talks \cup {Talk(s).id}
           stop == QuotaReached(done, run[s].initial_done, run[s].no_talks)
       IN  run' = [run EXCEPT
               ![s].aligned_talks = done,
               ![s].pending = <<>>,
               ![s].pc = IF stop THEN "done" ELSE "loop",
               ![s].idx = IF stop THEN @ ELSE @ + 1]
    /\ UNCHANGED <<input, out, hist, langs>>

\* Lines 87-92: the output file is closed, the id joins aligned_talks and the
\* stopping test is made.
Commit(s) ==
    /\ run[s].pc = "write"
    /\ run[s].pending = <<>>
    /\ LET done == run[s].aligned_talks \cup {Talk(s).id}
           stop == QuotaReached(done, run[s].initial_done, run[s].no_talks)
       IN  run' = [run EXCEPT
               ![s].aligned_talks = done,
               ![s].pc = IF stop THEN "done" ELSE "loop",
               ![s].idx = IF stop THEN @ ELSE @ + 1]
    /\ UNCHANGED <<input, out, hist, langs>>

\* Lines 80-87: opening, writing or closing the output file raises OSError.
WriteFails(s) ==
    /\ run[s].pc = "write"
    /\ run' = [run EXCEPT ![s].pc = "error"]
    /\ UNCHANGED <<input, out, hist, langs>>

\* The process is killed while align_corpus runs.
Crash(s) ==
    /\ run[s].pc \in Running
    /\ run' = [run EXCEPT ![s].pc = "crashed"]
    /\ UNCHANGED <<input, out, hist, langs>>

\* ------------------------------------------------- the specification
\* Runs of align_corpus on one output file, one after the other, each with
\* any quota and offset, each of which may crash or fail.
Next ==
    \/ \E given \in BOOLEAN, k \in Quotas, o \in Offsets :
           (given \/ k = 0) /\ StartRun(1, given, k, o)
    \/ Exhausted(1)
    \/ SkipOffset(1)
    \/ Malformed(1)
    \/ SkipDone(1)
    \/ MissingLanguage(1)
    \/ Align(1)
    \/ WriteRecord(1)
    \/ Commit(1)
    \/ WriteFails(1)
    \/ Crash(1)

Spec == Init /\ [][Next]_vars

\* Two runs over the same input file, each on its own output file, whose
\* steps interleave in any order: run A on output file 1 with offset a and
\* quota k, run B on output file 2 with offset a + k and any quota.  Either
\* may start first.
StartA ==
    \E k \in Quotas, a \in Offsets :
        /\ run[1].pc = "idle"
        /\ run[2].pc = "idle" \/ run[2].offset = a + k
        /\ StartRun(1, TRUE, k, a)

StartB ==
    \E given \in BOOLEAN, k \in Quotas, o \in 0..(2 * MaxUnits - 1) :
        /\ given \/ k = 0
        /\ run[2].pc = "idle"
        /\ run[1].pc = "idle" \/ o = run[1].offset + run[1].arg
        /\ StartRun(2, given, k, o)

NextConc ==
    \/ StartA
    \/ StartB
    \/ \E s \in Stores :
           \/ Exhausted(s)
           \/ SkipOffset(s)
           \/ Malformed(s)
           \/ SkipDone(s)
           \/ MissingLanguage(s)
           \/ Align(s)
           \/ WriteRecord(s)
           \/ Commit(s)

SpecConc == Init /\ [][NextConc]_vars

\* Runs that are not killed and whose writes do not fail: Python executes
\* the statements of align_corpus one after the other, and each aligner call
\* returns, so a step of the run that can be taken is taken.
RunStep(s) ==
    \/ Exhausted(s)
    \/ SkipOffset(s)
    \/ Malformed(s)
    \/ SkipDone(s)
    \/ MissingLanguage(s)
    \/ Align(s)
    \/ WriteRecord(s)
    \/ Commit(s)

NextLive ==
    \/ \E given \in BOOLEAN, k \in Quotas, o \in Offsets :
           (given \/ k = 0) /\ StartRun(1, given, k, o)
    \/ RunStep(1)

SpecLive == Init /\ [][NextLive]_vars /\ WF_vars(RunStep(1))

\* Lines 10-11 and 117-118: runs that are given any two language codes and
\* are neither killed nor fail in a write.
InitLang ==
    /\ input \in Inputs
    /\ out = [s \in Stores |-> <<>>]
    /\ run = [s \in Stores |-> IdleRun]
    /\ hist = [s \in Stores |-> NoHist]
    /\ langs \in Codes \X Codes

SpecLang == InitLang /\ [][NextLive]_vars

\* Lines 50-92 as a function: the output file a run leaves when it executes
\* alone and is not killed, from input line idx on, with the ledger
\* aligned_talks and the output file store.
RECURSIVE RunAlone(_, _, _, _, _)
RunAlone(idx, offset, target, aligned_talks, store) ==
    IF idx >= Len(input) THEN store
    ELSE IF BelowOffset(idx, offset)
         THEN RunAlone(idx + 1, offset, target, aligned_talks, store)
    ELSE LET talk == input[idx + 1] IN
         IF talk.kind = "bad" THEN store
         ELSE IF talk.id \in aligned_talks
              THEN RunAlone(idx + 1, offset, target, aligned_talks, store)
         ELSE IF talk.kind = "nolang" THEN store
         ELSE LET pairs == GetSentences(talk, langs[1], langs[2])
                  written == store \o [j \in 1..Len(pairs) |->
                                 OutRecord(talk.id, TalkName(idx),
                                           langs[1], langs[2], pairs[j])]
                  done == aligned_talks \cup {talk.id}
              IN  IF Cardinality(done) >= target THEN written
                  ELSE RunAlone(idx + 1, offset, target, done, written)

\* ------------------------------------------------- reading the state
Range(seq) == {seq[i] : i \in 1..Len(seq)}

Min2(a, b) == IF a <= b THEN a ELSE b

\* The positions of the input file, 0-based as idx is.
Positions == 0..(Len(input) - 1)

IdAt(p) == input[p + 1].id

\* The number of records of a store that carry an id.
Count(store, id) == Cardinality({i \in 1..Len(store) : store[i].TALK_ID = id})

\* The records the current run on s appended so far.
Appended(s) == SubSeq(out[s], Len(run[s].out0) + 1, Len(out[s]))

\* The run on s has gone past position p: it skipped the line or passed it to
\* the aligner.
Passed(s, p) ==
    \/ run[s].idx > p
    \/ run[s].idx = p /\ run[s].pc \in {"write", "done"}

\* The run before the current one on s was cut short (killed, or stopped by
\* an exception) and the current run has its arguments.
Resumed(s) ==
    /\ run[s].n >= 2
    /\ run[s].same
    /\ run[s].last.pc \in {"crashed", "error"}

\* The run before the current one on s stopped after some, not all, of the
\* records of the talk at last.idx were appended.
PartialBefore(s) ==
    /\ Resumed(s)
    /\ run[s].last.left > 0
    /\ run[s].last.left < input[run[s].last.idx + 1].pairs

\* The positions whose talks went through the aligner in an earlier run on s
\* and had all their records appended before that run stopped.
FullBefore(s) ==
    {p \in Positions :
        /\ input[p + 1].kind = "ok"
        /\ IdAt(p) \in hist[s].called
        /\ Count(run[s].out0, IdAt(p)) = input[p + 1].pairs}

\* ------------------------------------------------------------ claims

\* C1 - Quota respected: with unique ids, a run with quota k (0 included) and
\* any offset that starts from an output file with no completed talk ends
\* with exactly min(k, number of input lines at positions >= offset) ids in
\* the output file, and no record of a talk beyond position offset + k - 1.
C1_QuotaRespected ==
    LET r == run[1] IN
    (UniqueIds /\ r.pc = "done" /\ r.given /\ LoadLedger(r.out0) = {}) =>
        /\ Cardinality(LoadLedger(out[1])) =
               Min2(r.arg, IF Len(input) > r.offset
                           THEN Len(input) - r.offset ELSE 0)
        /\ \A i \in 1..Len(out[1]) : \A p \in Positions :
               IdAt(p) = out[1][i].TALK_ID => p <= r.offset + r.arg - 1

\* C2 - Partial writes are not treated as done: when a run stops after some
\* but not all records of a talk were appended, the next run with the same
\* arguments does not find the talk's id in the ledger it loads, and passes
\* the talk to the aligner again.
C2_PartialNotDone ==
    LET r == run[1] IN
    (UniqueIds /\ PartialBefore(1)) =>
        /\ IdAt(r.last.idx) \notin LoadLedger(r.out0)
        /\ (r.offset <= r.last.idx /\ Passed(1, r.last.idx))
               => r.last.idx \in Range(r.aligned)

\* C3 - Resume after crash: a fresh run with the same arguments does not pass
\* to the aligner, nor append a record for, a talk all of whose records were
\* appended before the interruption, and the first talk it aligns is the
\* first talk from the offset on that was not completed before.
C3_ResumeAfterCrash ==
    LET r == run[1] IN
    (UniqueIds /\ Resumed(1) /\ r.last.pc = "crashed") =>
        /\ \A p \in FullBefore(1) :
               /\ p \notin Range(r.aligned)
               /\ \A i \in 1..Len(Appended(1)) :
                      Appended(1)[i].TALK_ID # IdAt(p)
        /\ r.aligned # <<>> =>
               /\ r.aligned[1] \notin FullBefore(1)
               /\ \A p \in Positions :
                      (r.offset <= p /\ p < r.aligned[1]) => p \in FullBefore(1)

\* C4 - At most once: over runs none of which crashed or raised, the aligner
\* is invoked at most once for each id, and a talk a run skipped as already
\* completed is not processed by that run or a later one.
C4_AtMostOnce ==
    LET r == run[1] IN
    (hist[1].clean /\ r.pc \notin {"crashed", "error"}) =>
        /\ IdsAt(r.aligned) \cap hist[1].called = {}
        /\ \A i, j \in 1..Len(r.aligned) :
               IdAt(r.aligned[i]) = IdAt(r.aligned[j]) => i = j
        /\ IdsAt(r.aligned) \cap hist[1].skipped = {}
        /\ Range(r.aligned) \cap Range(r.skipped) = {}

\* C5 - Idempotence of a full run: after one run with offset 0 and a quota of
\* at least the number of input lines, the ids in the output file are the ids
\* of the input file, and a second run with the same arguments appends
\* nothing.
C5_FullRunIdempotent ==
    LET r == run[1] IN
    (r.given /\ r.offset = 0 /\ r.arg >= Len(input)) =>
        /\ (r.n = 1 /\ r.pc = "done")
               => LoadLedger(out[1]) = {IdAt(p) : p \in Positions}
        /\ (r.n = 2 /\ r.same /\ r.last.pc = "done") => out[1] = r.out0

\* C6 - Offset skip: with unique ids, a run that starts from an output file
\* with no record of the talks before the offset never passes such a talk to
\* the aligner, and the output file never holds a record of one.
C6_OffsetSkip ==
    LET r == run[1]
        before == {p \in Positions : p < r.offset}
    IN
    (UniqueIds /\ r.n >= 1
       /\ \A p \in before : IdAt(p) \notin LoadLedger(r.out0)) =>
        /\ Range(r.aligned) \cap before = {}
        /\ \A p \in before : IdAt(p) \notin LoadLedger(out[1])

\* A second run with offset 1 aligned a talk and ended, and the talk at
\* position 0, which it left alone, has sentence pairs to write.
C6_Witness ==
    LET r == run[1] IN
    /\ UniqueIds /\ r.n = 2 /\ r.pc = "done" /\ r.offset = 1
    /\ r.out0 # <<>> /\ r.aligned # <<>>
    /\ input[1].kind = "ok" /\ input[1].pairs > 0
    /\ IdAt(0) \notin LoadLedger(out[1])

\* C7 - Default quota: without no_talks, a run aligns exactly min(R, E)
\* talks, R the number of records in the output file at its start and E the
\* number of talks from the offset on whose id is not in the ledger; with an
\* empty output file it aligns none.
C7_DefaultQuota ==
    LET r == run[1]
        E == Cardinality({p \in Positions :
                 r.offset <= p /\ IdAt(p) \notin LoadLedger(r.out0)})
    IN
    (UniqueIds /\ r.pc = "done" /\ ~r.given) =>
        Len(r.aligned) = Min2(Len(r.out0), E)

\* C8 - Empty alignments are retried: with unique ids, the id of a talk for
\* which the aligner returned no pair in an earlier run is in no ledger
\* loaded from the output file, and a later run whose offset is not beyond
\* the talk passes it to the aligner again when it gets to it.
C8_EmptyRetried ==
    LET r == run[1] IN
    \A p \in Positions :
        (/\ UniqueIds /\ r.n >= 2
         /\ input[p + 1].kind = "ok" /\ input[p + 1].pairs = 0
         /\ IdAt(p) \in hist[1].called) =>
            /\ IdAt(p) \notin LoadLedger(r.out0)
            /\ IdAt(p) \notin LoadLedger(out[1])
            /\ (r.offset <= p /\ r.pc = "loop" /\ r.idx = p)
                   => IdAt(p) \notin r.aligned_talks
            /\ (r.offset <= p /\ Passed(1, p)) => p \in Range(r.aligned)

\* A second run passed to the aligner again a talk with no sentence pair
\* that the first run had aligned, after it had skipped a completed talk.
C8_Witness ==
    LET r == run[1] IN
    \E p \in Positions :
        /\ UniqueIds /\ r.n = 2
        /\ input[p + 1].kind = "ok" /\ input[p + 1].pairs = 0
        /\ IdAt(p) \in hist[1].called
        /\ p \in Range(r.aligned)
        /\ r.skipped # <<>>

\* The records of the talks at the positions of ps, each talk's records in
\* the order of its sentence pairs, under the language codes "en" and "es".
RECURSIVE Blocks(_)
Blocks(ps) ==
    IF ps = <<>> THEN <<>>
    ELSE [j \in 1..input[Head(ps) + 1].pairs |->
             [TALK_ID |-> IdAt(Head(ps)), TALK_NAME |-> Head(ps) + 1,
              EN |-> <<"en", IdAt(Head(ps)), j>>,
              ES |-> <<"es", IdAt(Head(ps)), j>>]] \o Blocks(Tail(ps))

\* C9 - Disjoint concurrent runs: with unique ids, run A (offset a, quota k)
\* and run B (offset a + k), each on its own initially empty output file and
\* interleaved in any way, pass no talk to the aligner in both runs, and each
\* output file ends with what the same run writes when it executes alone.
C9_DisjointRuns ==
    UniqueIds =>
        /\ Range(run[1].aligned) \cap Range(run[2].aligned) = {}
        /\ \A s \in Stores :
               run[s].pc \in {"done", "error"} =>
                   out[s] = RunAlone(0, run[s].offset, run[s].no_talks,
                                     {}, <<>>)

\* The run stands at a talk from the offset on that is not completed and
\* lacks a language.
AtMissingLanguage ==
    LET r == run[1] IN
    /\ r.pc = "loop" /\ r.idx < Len(input) /\ r.idx >= r.offset
    /\ input[r.idx + 1].kind = "nolang"
    /\ IdAt(r.idx) \notin r.aligned_talks

\* The run raised at a talk that lacks a language.
RaisedMissingLanguage ==
    LET r == run[1] IN
    /\ r.pc = "error" /\ r.idx < Len(input)
    /\ input[r.idx + 1].kind = "nolang"

\* C10 - Missing language is never recorded as complete: at a talk from the
\* offset on that is not completed and lacks a language, the run ends in an
\* error at that talk (unless it is killed first); the aligner is not invoked
\* on the talk, no record with its id is in the output file, its id is not in
\* aligned_talks, and the records appended for the talks aligned earlier in
\* the run are all in the output file.
C10_MissingLanguage ==
    /\ [][AtMissingLanguage =>
            /\ run'[1].pc \in {"error", "crashed"}
            /\ run'[1].idx = run[1].idx
            /\ run'[1].aligned = run[1].aligned
            /\ run'[1].aligned_talks = run[1].aligned_talks
            /\ out' = out]_vars
    /\ [](RaisedMissingLanguage =>
            /\ run[1].idx \notin Range(run[1].aligned)
            /\ IdAt(run[1].idx) \notin run[1].aligned_talks
            /\ IdAt(run[1].idx) \notin LoadLedger(out[1])
            /\ out[1] = run[1].out0 \o Blocks(run[1].aligned))

\* A second run raised at a talk that lacks a language after it had aligned
\* a talk and appended its records.
C10_Witness ==
    /\ RaisedMissingLanguage
    /\ run[1].n = 2
    /\ run[1].aligned # <<>>
    /\ Len(out[1]) > Len(run[1].out0)
    /\ run[1].out0 # <<>>

\* C11 - Malformed input is fatal: a run never gets past a malformed line of
\* the input file, whether the line is below the offset or not: it stops in
\* an error at that line, and passes no later talk to the aligner.
C11_MalformedFatal ==
    LET r == run[1] IN
    \A p \in Positions :
        (r.n >= 1 /\ input[p + 1].kind = "bad") =>
            /\ r.idx <= p
            /\ \A i \in 1..Len(r.aligned) : r.aligned[i] < p

\* C12 - Termination: a run that is not killed and whose steps are taken
\* ends; it raises only at a malformed line or a talk that lacks a language;
\* it returns only when the quota is reached or the input file is exhausted;
\* and when it returns by exhaustion every talk from the offset on was passed
\* to the aligner in this run or skipped because its id was in the ledger
\* (with unique ids: in the ledger the run loaded).
C12_Termination ==
    /\ (run[1].pc \in Running) ~> (run[1].pc \in {"done", "error"})
    /\ [](run[1].pc = "error" =>
             /\ run[1].idx < Len(input)
             /\ input[run[1].idx + 1].kind \in {"bad", "nolang"})
    /\ [](run[1].pc = "done" =>
             \/ Len(run[1].aligned) >= run[1].no_talks
             \/ run[1].idx >= Len(input))
    /\ []((run[1].pc = "done" /\ run[1].idx >= Len(input)) =>
             \A p \in Positions : p >= run[1].offset =>
                 \/ p \in Range(run[1].aligned)
                 \/ /\ p \in Range(run[1].skipped)
                    /\ IdAt(p) \in run[1].aligned_talks
                    /\ UniqueIds => IdAt(p) \in LoadLedger(run[1].out0))

\* A second run returned by exhaustion, short of its quota, after it skipped
\* a talk that was in the ledger and aligned another.
C12_Witness ==
    /\ run[1].n = 2 /\ run[1].pc = "done"
    /\ run[1].idx >= Len(input)
    /\ Len(run[1].aligned) < run[1].no_talks
    /\ run[1].aligned # <<>> /\ run[1].skipped # <<>>

\* The step of lines 89-92: the id joins aligned_talks and the stopping test
\* is evaluated.
StoppingTestStep ==
    run[1].pc = "write" /\ run'[1].pc \in {"loop", "done"}

\* C13 - The stopping test refines the specified one: whenever line 91 is
\* evaluated, len(aligned_talks) - initial_done is the number of talks aligned
\* and written so far in this run, none of them had its id in the ledger the
\* run loaded, and the run stops exactly when that number has reached
\* no_talks.
C13_StoppingTest ==
    [][StoppingTestStep =>
          /\ Cardinality(run'[1].aligned_talks) - run'[1].initial_done
                 = Len(run'[1].aligned)
          /\ IdsAt(run'[1].aligned) \cap LoadLedger(run'[1].out0) = {}
          /\ (run'[1].pc = "done")
                 <=> (Len(run'[1].aligned) >= run'[1].no_talks)]_vars

\* A second run that found ids in the ledger stopped by its quota after it
\* aligned two talks, with input left.
C13_Witness ==
    /\ run[1].n = 2 /\ run[1].pc = "done"
    /\ run[1].initial_done >= 1
    /\ run[1].no_talks = 2 /\ Len(run[1].aligned) = 2
    /\ run[1].idx < Len(input)

\* C14 - Ledger is derived from the store: at the start of a run and after
\* each talk is processed or skipped, aligned_talks is the set of TALK-IDs of
\* the records of the output file.
C14_LedgerIsStore ==
    (run[1].pc \in {"loop", "done"}) =>
        run[1].aligned_talks = LoadLedger(out[1])

\* No run on output file 1, the current one included, was killed or failed
\* in a write.
CrashFree == hist[1].whole /\ ~CutShort(1)

\* C15 - Per-unit contiguity: with unique ids and runs none of which was
\* killed or failed in a write, the records of the output file that carry one
\* TALK-ID form one contiguous block, and at every unit boundary of a run
\* each talk has all of its sentence pairs in the output file or none.
C15_Contiguity ==
    (UniqueIds /\ CrashFree) =>
        /\ \A i, k \in 1..Len(out[1]) :
               (i < k /\ out[1][i].TALK_ID = out[1][k].TALK_ID) =>
                   \A j \in i..k : out[1][j].TALK_ID = out[1][i].TALK_ID
        /\ run[1].pc # "write" =>
               \A p \in Positions :
                   input[p + 1].kind = "ok" =>
                       Count(out[1], IdAt(p)) \in {0, input[p + 1].pairs}

\* Two runs, neither cut short, each left a block of two records in the
\* output file.
C15_Witness ==
    /\ UniqueIds /\ CrashFree
    /\ run[1].n = 2 /\ run[1].pc = "done"
    /\ Len(run[1].out0) >= 2
    /\ Len(out[1]) >= Len(run[1].out0) + 2
    /\ run[1].skipped # <<>>

\* Sequence a is a prefix of sequence b.
IsPrefix(a, b) == Len(a) <= Len(b) /\ SubSeq(b, 1, Len(a)) = a

\* C16 - Append-only output: in every state of a run, after a crash or an
\* error too, the output file as the run found it is a prefix of the output
\* file, and no step modifies, reorders or removes a record.
C16_AppendOnly ==
    /\ [](IsPrefix(run[1].out0, out[1]))
    /\ [][IsPrefix(out[1], out'[1])]_vars

\* A second run that found records in the output file was cut short after it
\* appended records of its own.
C16_Witness ==
    /\ run[1].n = 2 /\ CutShort(1)
    /\ run[1].out0 # <<>>
    /\ Len(out[1]) > Len(run[1].out0)
    /\ IsPrefix(run[1].out0, out[1])

\* A sequence without its last element.
Front(seq) == SubSeq(seq, 1, Len(seq) - 1)

\* C17 - Processing order: within a run the positions passed to the aligner
\* are strictly increasing and none is below the offset; whenever the run
\* reads a line, and when it returns, the records of every talk it aligned
\* are all written; and the records the run appended are the blocks of the
\* talks it aligned, in input order (the last block as far as it is written).
C17_ProcessingOrder ==
    LET r == run[1] IN
    /\ \A i \in 1..Len(r.aligned) : r.aligned[i] >= r.offset
    /\ \A i, j \in 1..Len(r.aligned) :
           i < j => r.aligned[i] < r.aligned[j]
    /\ r.pc = "loop" => \A i \in 1..Len(r.aligned) : r.aligned[i] < r.idx
    /\ r.pc \in {"loop", "done"} => Appended(1) = Blocks(r.aligned)
    /\ r.pc = "write" => r.aligned[Len(r.aligned)] = r.idx
    /\ IsPrefix(Appended(1), Blocks(r.aligned))
    /\ r.aligned # <<>> => IsPrefix(Blocks(Front(r.aligned)), Appended(1))

\* A run with offset 1 returned after it aligned two talks and appended at
\* least three records.
C17_Witness ==
    /\ run[1].pc = "done" /\ run[1].offset = 1
    /\ Len(run[1].aligned) = 2
    /\ Len(Appended(1)) >= 3
    /\ Appended(1) = Blocks(run[1].aligned)

\* The sentence pairs the aligner returned for the talks at the positions of
\* ps, in the order it returned them, each with its talk's id and name.
RECURSIVE AlignedPairs(_)
AlignedPairs(ps) ==
    IF ps = <<>> THEN <<>>
    ELSE LET talk == input[Head(ps) + 1]
             pairs == GetSentences(talk, langs[1], langs[2])
         IN  [j \in 1..Len(pairs) |->
                 [id |-> talk.id, name |-> TalkName(Head(ps)),
                  src |-> pairs[j][1], tgt |-> pairs[j][2]]]
             \o AlignedPairs(Tail(ps))

\* C18 - Record content: whatever the two language codes, the records a run
\* appended are, one for one and in order, the sentence pairs the aligner
\* returned for the talks the run aligned (all of them whenever the run
\* reads a line and when it returns), and each record carries its talk's
\* TALK-ID and TALK-NAME, the source text under the uppercased source code
\* and the target text under the uppercased target code.
C18_RecordContent ==
    LET want == AlignedPairs(run[1].aligned)
        got  == Appended(1)
    IN  /\ Len(got) <= Len(want)
        /\ run[1].pc \in {"loop", "done"} => Len(got) = Len(want)
        /\ \A k \in 1..Min2(Len(got), Len(want)) :
               /\ got[k].TALK_ID = want[k].id
               /\ got[k].TALK_NAME = want[k].name
               /\ Upper(langs[1]) \in DOMAIN got[k]
               /\ got[k][Upper(langs[1])] = want[k].src
               /\ Upper(langs[2]) \in DOMAIN got[k]
               /\ got[k][Upper(langs[2])] = want[k].tgt

====
